---------------------------- MODULE Spec2Model ----------------------------
(***************************************************************************)
(* A model of pywsd's Lesk family (src/pywsd/lesk.py): the two overlap     *)
(* scorers, the signature builder and the four entry points.               *)
(*                                                                         *)
(* Conventions.  A sentence is the sequence of its whitespace-separated    *)
(* tokens (str.split()).  A sense is an integer identifier; the native     *)
(* ordering of senses that sorted() uses on (score, sense) tuples is the   *)
(* integer order.  The iteration order of a Python dict keyed by senses is *)
(* not fixed by the code: it is an input, any permutation of the keys.     *)
(* A call either returns a value or raises; both are recorded in result.   *)
(***************************************************************************)
EXTENDS Integers, Sequences, FiniteSets, TLC

VARIABLES pc, call, order, ss_sign, context, result

vars == <<pc, call, order, ss_sign, context, result>>

-----------------------------------------------------------------------------
(* Bounds of the model. *)

\* Longest signature handed directly to a scorer.
MaxSigLen == 2

\* Longest context sentence, in tokens.
MaxCtxLen == 2

-----------------------------------------------------------------------------
(* Generic helpers. *)

SeqsUpTo(S, n) == UNION {[1..k -> S] : k \in 0..n}

SeqToSet(s) == {s[i] : i \in DOMAIN s}

Perms(S) ==
  {p \in [1..Cardinality(S) -> S] : \A i, j \in DOMAIN p : i # j => p[i] # p[j]}

RECURSIVE FilterSeq(_, _)
FilterSeq(keep, s) ==
  IF s = <<>> THEN <<>>
  ELSE IF Head(s) \in keep THEN <<Head(s)>> \o FilterSeq(keep, Tail(s))
       ELSE FilterSeq(keep, Tail(s))

RECURSIVE Flatten(_)
Flatten(ss) == IF ss = <<>> THEN <<>> ELSE Head(ss) \o Flatten(Tail(ss))

RECURSIVE SumSeq(_)
SumSeq(s) == IF s = <<>> THEN 0 ELSE Head(s) + SumSeq(Tail(s))

-----------------------------------------------------------------------------
(* Python values: what a call returns, or the exception it raises. *)

NoneVal == [t |-> "None"]
SenseVal(s) == [t |-> "sense", ss |-> s]
\* A (score, sense) tuple.
PairVal(sc, s) == [t |-> "pair", score |-> sc, ss |-> s]
\* A (sense, score) tuple.
SsPairVal(s, sc) == [t |-> "sspair", ss |-> s, score |-> sc]
ListVal(items) == [t |-> "list", items |-> items]

Return(v) == [kind |-> "return", exc |-> "", val |-> v]
Raise(e) == [kind |-> "raise", exc |-> e, val |-> NoneVal]

\* A float quotient num/den, kept exact.
Quot(n, d) == [num |-> n, den |-> d]

-----------------------------------------------------------------------------
(* The overlap scorers. *)

\* set(synsets_signatures[ss]).intersection(context)
Overlaps(signature, ctx) == SeqToSet(signature) \cap SeqToSet(ctx)

OverlapLen(signature, ctx) == Cardinality(Overlaps(signature, ctx))

\* GreedyLoop with >= for >: a later sense of equal overlap takes over.
RECURSIVE GreedyLoopGe(_, _, _, _, _)
GreedyLoopGe(ctx, sigs, ord, max_overlaps, lesk_sense) ==
  IF ord = <<>> THEN lesk_sense
  ELSE LET ss == Head(ord)
           n == OverlapLen(sigs[ss], ctx)
       IN IF n >= max_overlaps
          THEN GreedyLoopGe(ctx, sigs, Tail(ord), n, SenseVal(ss))
          ELSE GreedyLoopGe(ctx, sigs, Tail(ord), max_overlaps, lesk_sense)

RECURSIVE GreedyLoop(_, _, _, _, _)
GreedyLoop(ctx, sigs, ord, max_overlaps, lesk_sense) ==
  IF ord = <<>> THEN lesk_sense
  ELSE LET ss == Head(ord)
           n == OverlapLen(sigs[ss], ctx)
       IN IF n > max_overlaps
          THEN GreedyLoop(ctx, sigs, Tail(ord), n, SenseVal(ss))
          ELSE GreedyLoop(ctx, sigs, Tail(ord), max_overlaps, lesk_sense)

compare_overlaps_greedy(ctx, sigs, ord) == GreedyLoop(ctx, sigs, ord, 0, NoneVal)

\* Python's order on (score, sense) tuples.
TupleLess(a, b) == a[1] < b[1] \/ (a[1] = b[1] /\ a[2] < b[2])

\* Insert tuple x into the descending sequence s; of equal tuples the one
\* that came first stays first (sorted() is stable).
RECURSIVE InsertDesc(_, _)
InsertDesc(x, s) ==
  IF s = <<>> THEN <<x>>
  ELSE IF TupleLess(Head(s), x) THEN <<x>> \o s
       ELSE <<Head(s)>> \o InsertDesc(x, Tail(s))

\* sorted(tuples), without reverse=True.
RECURSIVE InsertAsc(_, _)
InsertAsc(x, s) ==
  IF s = <<>> THEN <<x>>
  ELSE IF TupleLess(x, Head(s)) THEN <<x>> \o s
       ELSE <<Head(s)>> \o InsertAsc(x, Tail(s))

RECURSIVE SortedForward(_)
SortedForward(s) ==
  IF s = <<>> THEN <<>>
  ELSE InsertAsc(s[Len(s)], SortedForward(SubSeq(s, 1, Len(s) - 1)))

\* sorted(tuples, reverse=True)
RECURSIVE SortedReverse(_)
SortedReverse(s) ==
  IF s = <<>> THEN <<>>
  ELSE InsertDesc(s[Len(s)], SortedReverse(SubSeq(s, 1, Len(s) - 1)))

compare_overlaps(ctx, sigs, ord, nbest, keepscore, normalizescore) ==
  LET overlaplen_synsets == [i \in DOMAIN ord |-> <<OverlapLen(sigs[ord[i]], ctx), ord[i]>>]
      sorted == SortedReverse(overlaplen_synsets)
      total == SumSeq([i \in DOMAIN sorted |-> sorted[i][1]])
      ranked == IF keepscore
                THEN [i \in DOMAIN sorted |->
                        PairVal(IF normalizescore THEN Quot(sorted[i][1], total)
                                ELSE sorted[i][1], sorted[i][2])]
                ELSE [i \in DOMAIN sorted |-> SenseVal(sorted[i][2])]
  IN IF normalizescore /\ sorted # <<>> /\ total = 0
     THEN Raise("ZeroDivisionError")
     ELSE IF nbest THEN Return(ListVal(ranked))
     ELSE IF ranked = <<>> THEN Raise("IndexError")
     ELSE Return(ranked[1])

-----------------------------------------------------------------------------
(* Text normalization and the stopword set, over a small vocabulary. *)

\* stopwords.words('english'): lowercase entries only.
Stopwords == {"the", "it", "has"}

\* utils.lemmatize
lemmatize(w) ==
  CASE w = "banks" -> "bank"
    [] w = "rivers" -> "river"
    [] w = "deposits" -> "deposit"
    [] w = "has" -> "ha"
    [] OTHER -> w

\* utils.porter.stem
porter_stem(w) ==
  CASE w = "money" -> "monei"
    [] w = "banks" -> "bank"
    [] w = "rivers" -> "river"
    [] w = "deposits" -> "deposit"
    [] w = "incline" -> "inclin"
    [] OTHER -> w

\* [lemmatize(i) for i in words]
Lemmatized(s) == [i \in DOMAIN s |-> lemmatize(s[i])]

\* [porter.stem(i) for i in words]
Stemmed(s) == [i \in DOMAIN s |-> porter_stem(s[i])]

\* str.lower()
lower(w) == IF w = "The" THEN "the" ELSE w

\* word_tokenize(w.replace("_", " ")) for one whitespace-free token w
tokenize_underscored(w) ==
  CASE w = "river_bank" -> <<"river", "bank">>
    [] w = "banking_company" -> <<"banking", "company">>
    [] OTHER -> <<w>>

Lowered(s) == [i \in DOMAIN s |-> lower(s[i])]

Tokenized(s) == [i \in DOMAIN s |-> tokenize_underscored(s[i])]

\* string.punctuation, as far as single tokens go
Punctuation == {".", ",", "_"}

RemoveStopwords(s) ==
  LET Kept == {s[i] : i \in DOMAIN s} \ Stopwords IN FilterSeq(Kept, s)

-----------------------------------------------------------------------------
(* The lexical knowledge base (WordNet), a small fixed instance.            *)
(* Senses: 1 bank.n.01, 2 bank.n.02, 3 bank.v.01, 4 slope.n.01,            *)
(* 5 riverbank.n.01, 6 river.n.01, 7 money.n.01, 8 it.n.01.                *)

SenseIds == 1..8

\* wn.synsets(word)
synsets(word) ==
  CASE word = "bank" -> <<1, 2, 3>>
    [] word = "it" -> <<8>>
    [] OTHER -> <<>>

ss_pos(ss) == IF ss = 3 THEN "v" ELSE "n"

\* ss.definition().split()
definition(ss) ==
  CASE ss = 1 -> <<"land", "by", "the", "rivers">>
    [] ss = 2 -> <<"it", "has", "money">>
    [] ss = 3 -> <<"deposits", "money">>
    [] OTHER -> <<>>

\* [i.split() for i in ss.examples()]
examples(ss) ==
  CASE ss = 1 -> << <<"The", "river", "banks">> >>
    [] ss = 3 -> << <<"banks">>, <<"the", "money">> >>
    [] OTHER -> <<>>

lemma_names(ss) ==
  CASE ss = 1 -> <<"bank">>
    [] ss = 2 -> <<"bank", "banking_company">>
    [] ss = 3 -> <<"bank">>
    [] ss = 4 -> <<"slope", "incline">>
    [] ss = 5 -> <<"riverbank", "river_bank">>
    [] ss = 6 -> <<"rivers", "it">>
    [] ss = 7 -> <<"money", "deposits">>
    [] OTHER -> <<"it">>

\* [i.lemma_names() for i in senses]
LemmaNamesOf(senses) == [i \in DOMAIN senses |-> lemma_names(senses[i])]

hypernyms(ss) == IF ss = 1 THEN <<4>> ELSE IF ss = 3 THEN <<7>> ELSE <<>>
hyponyms(ss) == IF ss = 1 THEN <<5>> ELSE <<>>
member_holonyms(ss) == <<>>
member_meronyms(ss) == IF ss = 2 THEN <<7>> ELSE <<>>
part_meronyms(ss) == IF ss = 2 THEN <<7>> ELSE <<>>
part_holonyms(ss) == IF ss = 1 THEN <<6>> ELSE <<>>
similar_tos(ss) == IF ss = 1 THEN <<5>> ELSE <<>>
substance_holonyms(ss) == <<>>
substance_meronyms(ss) == <<>>

\* The part-of-speech argument: None, or a WordNet tag.
PosNone == "None"

-----------------------------------------------------------------------------
(* The signature builder. *)

\* The senses of the word that pass the part-of-speech filter.
SignatureKeys(word, pos) ==
  {ss \in SeqToSet(synsets(word)) : ~(pos # PosNone /\ ss_pos(ss) # pos)}

\* SenseSignature with the stopword filter after lemmatizing and stemming.
SenseSignatureStopLast(ss, lemma, stem, hyperhypo, stop) ==
  LET s0 == definition(ss) \o Flatten(examples(ss)) \o lemma_names(ss)
      s1 == IF hyperhypo
            THEN s0 \o Flatten(LemmaNamesOf(hypernyms(ss) \o hyponyms(ss)))
            ELSE s0
      s2 == IF lemma THEN Lemmatized(s1) ELSE s1
      s3 == IF stem THEN Stemmed(s2) ELSE s2
      s4 == IF stop THEN RemoveStopwords(s3) ELSE s3
  IN s4

SenseSignature(ss, lemma, stem, hyperhypo, stop) ==
  LET s0 == definition(ss) \o Flatten(examples(ss)) \o lemma_names(ss)
      s1 == IF hyperhypo
            THEN s0 \o Flatten(LemmaNamesOf(hypernyms(ss) \o hyponyms(ss)))
            ELSE s0
      s2 == IF stop THEN RemoveStopwords(s1) ELSE s1
      s3 == IF lemma THEN Lemmatized(s2) ELSE s2
      s4 == IF stem THEN Stemmed(s3) ELSE s3
  IN s4

simple_signature(word, pos, lemma, stem, hyperhypo, stop) ==
  [ss \in SignatureKeys(word, pos) |-> SenseSignature(ss, lemma, stem, hyperhypo, stop)]

-----------------------------------------------------------------------------
(* The vector similarity collaborator. *)

CountIn(w, s) == Cardinality({i \in DOMAIN s : s[i] = w})

\* cosine_similarity of two texts over term-frequency vectors, 0 when
\* either vector is all-zero.  A text is given by its tokens: cosine_lesk
\* passes the signature joined by spaces, and the context either joined
\* or as the list of its tokens.  The value kept is the square of the
\* cosine, which orders non-negative similarities as the cosine does.
cos_sim(a, b) ==
  LET ws == SeqToSet(a) \cup SeqToSet(b)
      RECURSIVE Sum(_, _, _)
      Sum(S, x, y) ==
        IF S = {} THEN 0
        ELSE LET w == CHOOSE v \in S : TRUE
             IN CountIn(w, x) * CountIn(w, y) + Sum(S \ {w}, x, y)
      dot == Sum(ws, a, b)
      na == Sum(ws, a, a)
      nb == Sum(ws, b, b)
  IN IF na * nb = 0 THEN Quot(0, 1) ELSE Quot(dot * dot, na * nb)

QuotLess(p, q) == p.num * q.den < q.num * p.den

\* Python's order on (similarity, sense) tuples.
CosTupleLess(a, b) ==
  QuotLess(a[1], b[1]) \/ (~QuotLess(b[1], a[1]) /\ a[2] < b[2])

RECURSIVE CosInsertDesc(_, _)
CosInsertDesc(x, s) ==
  IF s = <<>> THEN <<x>>
  ELSE IF CosTupleLess(Head(s), x) THEN <<x>> \o s
       ELSE <<Head(s)>> \o CosInsertDesc(x, Tail(s))

RECURSIVE CosSortedReverse(_)
CosSortedReverse(s) ==
  IF s = <<>> THEN <<>>
  ELSE CosInsertDesc(s[Len(s)], CosSortedReverse(SubSeq(s, 1, Len(s) - 1)))

-----------------------------------------------------------------------------
(* The entry points.  Each yields the signature mapping and the context    *)
(* handed to its scorer, and the outcome of the call.                      *)

Outcome(sigs, ctx, res) == [ss_sign |-> sigs, context |-> ctx, result |-> res]

\* The context of simple_lesk, adapted_lesk and cosine_lesk.
LeskContext(sentence, context_is_lemmatized) ==
  IF context_is_lemmatized THEN sentence ELSE Lemmatized(sentence)

\* original_lesk's dictionary: the caller's, or WordNet's definitions when
\* the caller's is None or empty.
OriginalDictionary(word, dictionary) ==
  IF DOMAIN dictionary = {}
  THEN [ss \in SeqToSet(synsets(lemmatize(word))) |-> definition(ss)]
  ELSE dictionary

original_lesk(sentence, word, dictionary, ord) ==
  LET dict == OriginalDictionary(word, dictionary)
  IN Outcome(dict, sentence, Return(compare_overlaps_greedy(sentence, dict, ord)))

\* The signatures of simple_lesk and adapted_lesk: stop is not passed on.
LeskSignatures(word, pos, lemma, stem, hyperhypo) ==
  simple_signature(lemmatize(word), pos, lemma, stem, hyperhypo, TRUE)

simple_lesk(sentence, word, pos, lemma, stem, hyperhypo, context_is_lemmatized, nbest, keepscore, normalizescore, ord) ==
  LET sigs == LeskSignatures(word, pos, lemma, stem, hyperhypo)
      ctx == LeskContext(sentence, context_is_lemmatized)
  IN Outcome(sigs, ctx,
             compare_overlaps(ctx, sigs, ord, nbest, keepscore, normalizescore))

\* set(ss.member_holonyms() + ... + ss.substance_meronyms())
RelatedSenses(ss) ==
  SeqToSet(member_holonyms(ss) \o member_meronyms(ss) \o part_meronyms(ss)
           \o part_holonyms(ss) \o similar_tos(ss) \o substance_holonyms(ss)
           \o substance_meronyms(ss))

\* The words adapted_lesk adds for sense ss, its related senses listed in
\* the order relorder.
RelatedSignature(relorder, lemma, stem) ==
  LET s0 == RemoveStopwords(Flatten(LemmaNamesOf(relorder)))
      s1 == IF lemma THEN Lemmatized(s0) ELSE s0
      s2 == IF stem THEN Stemmed(s1) ELSE s1
  IN s2

\* The senses whose signature adapted_lesk extends: the loop variable ss
\* after the loop over ss_sign, that is the last sense iterated.
\* AugmentedSenses with every sense extended by its own related senses.
AugmentedSensesAll(ord) == SeqToSet(ord)

AugmentedSenses(ord) == {ord[Len(ord)]}

\* adapted_lesk with stop passed on to simple_signature.
adapted_lesk_stop_forwarded(sentence, word, pos, lemma, stem, hyperhypo, stop, context_is_lemmatized, nbest, keepscore, normalizescore, ord, relorder) ==
  LET base == simple_signature(lemmatize(word), pos, lemma, stem, hyperhypo, stop)
      sigs == [ss \in DOMAIN base |->
                 IF ss \in {ord[Len(ord)]}
                 THEN base[ss] \o RelatedSignature(relorder[ss], lemma, stem)
                 ELSE base[ss]]
      ctx == LeskContext(sentence, context_is_lemmatized)
  IN IF ord = <<>>
     THEN Outcome(base, <<>>, Raise("NameError"))
     ELSE Outcome(sigs, ctx,
                  compare_overlaps(ctx, sigs, ord, nbest, keepscore, normalizescore))

adapted_lesk(sentence, word, pos, lemma, stem, hyperhypo, stop, context_is_lemmatized, nbest, keepscore, normalizescore, ord, relorder) ==
  LET base == LeskSignatures(word, pos, lemma, stem, hyperhypo)
      sigs == [ss \in DOMAIN base |->
                 IF ss \in AugmentedSenses(ord)
                 THEN base[ss] \o RelatedSignature(relorder[ss], lemma, stem)
                 ELSE base[ss]]
      ctx == LeskContext(sentence, context_is_lemmatized)
  IN IF ord = <<>>
     THEN Outcome(base, <<>>, Raise("NameError"))
     ELSE Outcome(sigs, ctx,
                  compare_overlaps(ctx, sigs, ord, nbest, keepscore, normalizescore))

\* The signatures cosine_lesk starts from: lemma is not passed on, and
\* pos, lemma and hyperhypo keep simple_signature's defaults.
CosineSignatures(word, lemma, stem, stop) ==
  simple_signature(lemmatize(word), PosNone, TRUE, stem, TRUE, stop)

\* A signature as cosine_lesk scores it: joined, lowercased, underscores
\* replaced by spaces, tokenized again, punctuation dropped, then the
\* stop, lemma and stem options.
CosineProcess(signature, lemma, stem, stop) ==
  LET s0 == Flatten(Tokenized(Lowered(signature)))
      s1 == FilterSeq(SeqToSet(s0) \ Punctuation, s0)
      s2 == IF stop THEN RemoveStopwords(s1) ELSE s1
      s3 == IF lemma THEN Lemmatized(s2) ELSE s2
      s4 == IF stem THEN Stemmed(s3) ELSE s3
  IN s4

\* How many senses the loop of cosine_lesk scores before it returns: the
\* return statements are inside the loop body.
CosineVisited(ord) == IF ord = <<>> THEN 0 ELSE 1

cosine_lesk(sentence, word, lemma, stem, stop, context_is_lemmatized, nbest, ord) ==
  LET sigs == CosineSignatures(word, lemma, stem, stop)
      ctx == LeskContext(sentence, context_is_lemmatized)
      visited == SubSeq(ord, 1, CosineVisited(ord))
      scored == [ss \in SeqToSet(visited) |-> CosineProcess(sigs[ss], lemma, stem, stop)]
      scores == [i \in DOMAIN visited |-> <<cos_sim(ctx, scored[visited[i]]), visited[i]>>]
      sorted == CosSortedReverse(scores)
  IN IF ord = <<>>
     THEN Outcome(scored, ctx, Return(NoneVal))
     ELSE IF ~nbest
          THEN Outcome(scored, ctx, Return(SenseVal(sorted[1][2])))
          ELSE Outcome(scored, ctx,
                 Return(ListVal([i \in DOMAIN sorted |->
                                   SsPairVal(sorted[i][2], sorted[i][1])])))

-----------------------------------------------------------------------------
(* Inputs. *)

\* Words and senses of the signature mappings handed directly to a scorer.
ScorerWords == {"bank", "money"}
ScorerSenses == {1, 2, 3}

\* Tokens of a context sentence.
CtxWords == {"money", "rivers", "the"}
Sentences == SeqsUpTo(CtxWords, MaxCtxLen)

\* Ambiguous words: an inflected word with three senses, a word with one
\* sense, an unknown word.
AmbiguousWords == {"banks", "it", "xyzzy"}
PosTags == {PosNone, "n", "v"}

\* Dictionaries a caller passes to original_lesk; the empty one stands for
\* None as well (both are false in "if not dictionary").
Dictionaries == {<<>>, (2 :> <<"money">>) @@ (3 :> <<"rivers", "money">>)}

NoCall ==
  [op |-> "", sentence |-> <<>>, word |-> "", pos |-> PosNone,
   lemma |-> TRUE, stem |-> FALSE, hyperhypo |-> TRUE, stop |-> TRUE,
   context_is_lemmatized |-> FALSE, nbest |-> FALSE, keepscore |-> FALSE,
   normalizescore |-> FALSE, dictionary |-> <<>>, relorder |-> <<>>]

-----------------------------------------------------------------------------
(* The state machine: one call per behaviour. *)

Init ==
  /\ pc = "idle"
  /\ call = NoCall
  /\ order = <<>>
  /\ ss_sign = <<>>
  /\ context = <<>>
  /\ result = Return(NoneVal)

Finish(c, ord, out) ==
  /\ pc' = "done"
  /\ call' = c
  /\ order' = ord
  /\ ss_sign' = out.ss_sign
  /\ context' = out.context
  /\ result' = out.result

GreedyCall ==
  /\ pc = "idle"
  /\ \E S \in SUBSET ScorerSenses :
       \E ord \in Perms(S), ctx \in SeqsUpTo(ScorerWords, MaxCtxLen),
          sigs \in [S -> SeqsUpTo(ScorerWords, MaxSigLen)] :
         Finish([NoCall EXCEPT !.op = "compare_overlaps_greedy"], ord,
                Outcome(sigs, ctx, Return(compare_overlaps_greedy(ctx, sigs, ord))))

CompareCall ==
  /\ pc = "idle"
  /\ \E S \in SUBSET ScorerSenses :
       \E ord \in Perms(S), ctx \in SeqsUpTo(ScorerWords, MaxCtxLen),
          sigs \in [S -> SeqsUpTo(ScorerWords, MaxSigLen)],
          nbest \in BOOLEAN, keepscore \in BOOLEAN, normalizescore \in BOOLEAN :
         Finish([NoCall EXCEPT !.op = "compare_overlaps", !.nbest = nbest,
                               !.keepscore = keepscore,
                               !.normalizescore = normalizescore], ord,
                Outcome(sigs, ctx,
                        compare_overlaps(ctx, sigs, ord, nbest, keepscore,
                                         normalizescore)))

SimpleSignatureCall ==
  /\ pc = "idle"
  /\ \E word \in {"bank", "it", "xyzzy"}, pos \in PosTags, lemma \in BOOLEAN,
        stem \in BOOLEAN, hyperhypo \in BOOLEAN, stop \in BOOLEAN :
       Finish([NoCall EXCEPT !.op = "simple_signature", !.word = word,
                             !.pos = pos, !.lemma = lemma, !.stem = stem,
                             !.hyperhypo = hyperhypo, !.stop = stop], <<>>,
              Outcome(simple_signature(word, pos, lemma, stem, hyperhypo, stop),
                      <<>>, Return([t |-> "dict"])))

OriginalLeskCall ==
  /\ pc = "idle"
  /\ \E word \in AmbiguousWords, dictionary \in Dictionaries :
       \E ord \in Perms(DOMAIN OriginalDictionary(word, dictionary)),
          sentence \in Sentences :
         Finish([NoCall EXCEPT !.op = "original_lesk", !.sentence = sentence,
                               !.word = word, !.dictionary = dictionary], ord,
                original_lesk(sentence, word, dictionary, ord))

SimpleLeskCall ==
  /\ pc = "idle"
  /\ \E word \in AmbiguousWords, pos \in PosTags :
       \E ord \in Perms(SignatureKeys(lemmatize(word), pos)),
          sentence \in Sentences,
          lemma \in BOOLEAN, stem \in BOOLEAN, hyperhypo \in BOOLEAN,
          cil \in BOOLEAN, nbest \in BOOLEAN, keepscore \in BOOLEAN,
          normalizescore \in BOOLEAN :
         Finish([NoCall EXCEPT !.op = "simple_lesk", !.sentence = sentence,
                               !.word = word, !.pos = pos, !.lemma = lemma,
                               !.stem = stem, !.hyperhypo = hyperhypo,
                               !.context_is_lemmatized = cil, !.nbest = nbest,
                               !.keepscore = keepscore,
                               !.normalizescore = normalizescore], ord,
                simple_lesk(sentence, word, pos, lemma, stem, hyperhypo, cil,
                            nbest, keepscore, normalizescore, ord))

\* For each sense iterated, an order of list(set(...)) of its related senses.
RelOrders(keys) ==
  {r \in [keys -> UNION {Perms(RelatedSenses(ss)) : ss \in keys}] :
     \A ss \in keys : r[ss] \in Perms(RelatedSenses(ss))}

AdaptedLeskCall ==
  /\ pc = "idle"
  /\ \E word \in AmbiguousWords, pos \in PosTags :
       \E ord \in Perms(SignatureKeys(lemmatize(word), pos)),
          relorder \in RelOrders(SignatureKeys(lemmatize(word), pos)),
          sentence \in Sentences,
          lemma \in BOOLEAN, stem \in BOOLEAN, hyperhypo \in BOOLEAN,
          stop \in BOOLEAN, cil \in BOOLEAN, nbest \in BOOLEAN,
          keepscore \in BOOLEAN, normalizescore \in BOOLEAN :
         Finish([NoCall EXCEPT !.op = "adapted_lesk", !.sentence = sentence,
                               !.word = word, !.pos = pos, !.lemma = lemma,
                               !.stem = stem, !.hyperhypo = hyperhypo,
                               !.stop = stop,
                               !.context_is_lemmatized = cil, !.nbest = nbest,
                               !.keepscore = keepscore,
                               !.normalizescore = normalizescore,
                               !.relorder = relorder], ord,
                adapted_lesk(sentence, word, pos, lemma, stem, hyperhypo, stop,
                             cil, nbest, keepscore, normalizescore, ord,
                             relorder))

CosineLeskCall ==
  /\ pc = "idle"
  /\ \E word \in AmbiguousWords :
       \E ord \in Perms(SignatureKeys(lemmatize(word), PosNone)),
          sentence \in Sentences, lemma \in BOOLEAN,
          stem \in BOOLEAN, stop \in BOOLEAN, cil \in BOOLEAN, nbest \in BOOLEAN :
         Finish([NoCall EXCEPT !.op = "cosine_lesk", !.sentence = sentence,
                               !.word = word, !.lemma = lemma, !.stem = stem,
                               !.stop = stop, !.context_is_lemmatized = cil,
                               !.nbest = nbest], ord,
                cosine_lesk(sentence, word, lemma, stem, stop, cil, nbest, ord))

ScorerNext == GreedyCall \/ CompareCall
SignatureNext == SimpleSignatureCall
LeskNext == CosineLeskCall \/ OriginalLeskCall \/ SimpleLeskCall \/ AdaptedLeskCall

Next == ScorerNext \/ SignatureNext \/ LeskNext

Spec == Init /\ [][Next]_vars

\* The scorers called directly, on every context and signature mapping.
SpecScorer == Init /\ [][ScorerNext]_vars

\* The signature builder called directly.
SpecSignature == Init /\ [][SignatureNext]_vars

\* The four entry points.
SpecLesk == Init /\ [][LeskNext]_vars

-----------------------------------------------------------------------------
(* Properties. *)

Done(op) == pc = "done" /\ call.op = op

\* The overlap score of a sense of the mapping handed to the scorer.
Score(ss) == OverlapLen(ss_sign[ss], context)

TopScore == IF DOMAIN ss_sign = {} THEN 0
            ELSE CHOOSE m \in {Score(ss) : ss \in DOMAIN ss_sign} :
                   \A ss \in DOMAIN ss_sign : Score(ss) <= m

TopSenses == {ss \in DOMAIN ss_sign : Score(ss) = TopScore}

\* The full ranking of compare_overlaps (nbest, with scores) on the inputs
\* of the call in the state.
FullRanking == compare_overlaps(context, ss_sign, order, TRUE, TRUE, FALSE).val.items

\* C1, as claimed: the sense the greedy scorer returns is the top element
\* of the full ranking of compare_overlaps on the same inputs whenever the
\* top score of that ranking is greater than 0, ties for the top included.
C1_GreedyIsTopOfRanking ==
  Done("compare_overlaps_greedy") =>
    LET full == FullRanking
    IN (full # <<>> /\ full[1].score > 0) => result.val = SenseVal(full[1].ss)

\* C1, amended: when the top score is greater than 0 the greedy scorer
\* returns the first sense, in the mapping's iteration order, that attains
\* the top score; that is the top element of the full ranking when one
\* sense alone attains the top score.
C1_GreedyIsFirstTopSense ==
  Done("compare_overlaps_greedy") =>
    LET full == FullRanking
        top == TopSenses
    IN (full # <<>> /\ full[1].score > 0)
         => /\ result.val.t = "sense"
            /\ result.val.ss \in top
            /\ \A i, j \in DOMAIN order :
                 (order[j] = result.val.ss /\ i < j) => order[i] \notin top
            /\ (Cardinality(top) = 1 => result.val = SenseVal(full[1].ss))

\* C1, witness: a greedy call on three senses, one of which alone has the
\* top score 1 and is neither first in iteration order nor the greatest.
C1_Witness ==
  /\ Done("compare_overlaps_greedy")
  /\ DOMAIN ss_sign = {1, 2, 3}
  /\ TopScore > 0
  /\ TopSenses = {2}
  /\ order = <<1, 2, 3>>
  /\ result.val = SenseVal(2)

\* C4, as claimed: compare_overlaps with normalizescore on a non-empty
\* mapping whose overlap scores sum to 0 does not fault; it returns, and
\* every score it returns is 0.
C4_NormalizeZeroTotalReturns ==
  (Done("compare_overlaps") /\ call.normalizescore /\ DOMAIN ss_sign # {}
     /\ \A ss \in DOMAIN ss_sign : Score(ss) = 0)
    => /\ result.kind = "return"
       /\ (call.keepscore /\ call.nbest) =>
            \A i \in DOMAIN result.val.items : result.val.items[i].score = 0

\* C6: compare_overlaps with nbest returns the senses in non-increasing
\* order of their overlap score, with and without keepscore and
\* normalizescore.
C6_RankingNonIncreasing ==
  (Done("compare_overlaps") /\ call.nbest /\ result.kind = "return")
    => LET items == result.val.items
       IN /\ Len(items) = Cardinality(DOMAIN ss_sign)
          /\ \A i, j \in DOMAIN items :
               i < j => Score(items[i].ss) >= Score(items[j].ss)

\* C6, witness: a ranking of three senses with three different scores,
\* kept and normalized, whose iteration order was not the ranked order.
C6_Witness ==
  /\ Done("compare_overlaps")
  /\ call.nbest /\ call.keepscore /\ call.normalizescore
  /\ result.kind = "return"
  /\ order = <<1, 2, 3>>
  /\ Score(1) = 1 /\ Score(2) = 0 /\ Score(3) = 2
  /\ result.val.items[1] = PairVal(Quot(2, 3), 3)
  /\ result.val.items[3].ss = 2

\* The candidate senses of an entry-point call.
Candidates ==
  CASE call.op = "original_lesk" -> DOMAIN OriginalDictionary(call.word, call.dictionary)
    [] call.op = "cosine_lesk" -> SignatureKeys(lemmatize(call.word), PosNone)
    [] OTHER -> SignatureKeys(lemmatize(call.word), call.pos)

EntryPoints == {"original_lesk", "simple_lesk", "adapted_lesk", "cosine_lesk"}

\* C2, as claimed: when the ambiguous word has no senses (or the
\* part-of-speech filter excludes them all), each entry point returns a
\* "no sense" result, None or empty, and never raises.
C2_NoSenseNeverRaises ==
  (pc = "done" /\ call.op \in EntryPoints /\ Candidates = {})
    => /\ result.kind = "return"
       /\ result.val \in {NoneVal, ListVal(<<>>)}

\* The similarity cosine_lesk computes for a candidate sense.
CosineScore(ss) ==
  cos_sim(context,
          CosineProcess(CosineSignatures(call.word, call.lemma, call.stem,
                                         call.stop)[ss],
                        call.lemma, call.stem, call.stop))

\* C3, as claimed: cosine_lesk scores every sense before returning; with
\* nbest the ranking has exactly one entry for each candidate sense, and
\* without nbest the returned sense has the maximum similarity over all
\* candidate senses.
C3_CosineScoresEverySense ==
  (Done("cosine_lesk") /\ Candidates # {} /\ result.kind = "return")
    => IF call.nbest
       THEN /\ Len(result.val.items) = Cardinality(Candidates)
            /\ {result.val.items[i].ss : i \in DOMAIN result.val.items} = Candidates
       ELSE \A ss \in Candidates :
              ~QuotLess(CosineScore(result.val.ss), CosineScore(ss))

\* The context under the configuration the signatures were built with:
\* stopwords dropped, then lemmatized if lemma (unless the caller passes a
\* lemmatized context already), then stemmed if stem.
ConfiguredContext ==
  LET s0 == RemoveStopwords(call.sentence)
      s1 == IF call.lemma /\ ~call.context_is_lemmatized
            THEN Lemmatized(s0) ELSE s0
      s2 == IF call.stem THEN Stemmed(s1) ELSE s1
  IN s2

\* C5, as claimed: in simple_lesk and adapted_lesk the context words handed
\* to the overlap scorer are normalized with the lemma, stem and stopword
\* configuration the signatures were built with.
C5_ContextNormalizedAsSignatures ==
  (pc = "done" /\ call.op \in {"simple_lesk", "adapted_lesk"} /\ order # <<>>)
    => context = ConfiguredContext

\* The words adapted_lesk is to add for a sense: the lemma names of its
\* related senses, stopwords dropped, each lemmatized and stemmed as asked.
ClosureWords(ss) ==
  LET names == Flatten(LemmaNamesOf(call.relorder[ss]))
      kept == FilterSeq({w \in SeqToSet(names) : w \notin Stopwords}, names)
      Norm(w) == LET l == IF call.lemma THEN lemmatize(w) ELSE w
                 IN IF call.stem THEN porter_stem(l) ELSE l
  IN [i \in DOMAIN kept |-> Norm(kept[i])]

BaseSignatures ==
  simple_signature(lemmatize(call.word), call.pos, call.lemma, call.stem,
                   call.hyperhypo, TRUE)

C8_CosineSignatureConfigured ==
  Done("cosine_lesk") =>
    \A ss \in DOMAIN ss_sign :
      ss_sign[ss] =
        CosineProcess(SenseSignature(ss, call.lemma, call.stem, FALSE, call.stop),
                      call.lemma, call.stem, call.stop)

\* The raw words of a sense, in signature order.
RawWords(ss, hyperhypo) ==
  definition(ss) \o Flatten(examples(ss)) \o lemma_names(ss)
    \o (IF hyperhypo
        THEN Flatten(LemmaNamesOf(hypernyms(ss)))
               \o Flatten(LemmaNamesOf(hyponyms(ss)))
        ELSE <<>>)

\* C9: simple_signature's keys are the senses of the lemma that match the
\* requested part of speech (all of them when pos is None), a sense with
\* nothing left being kept with an empty signature; each value is the
\* definition words, example words, lemma names and (if hyperhypo) lemma
\* names of hypernyms then hyponyms, in that order, stopwords dropped on
\* the raw tokens (if stop), then each word lemmatized (if lemma), then
\* stemmed (if stem).
C9_SignatureContents ==
  Done("simple_signature") =>
    /\ DOMAIN ss_sign = {ss \in SeqToSet(synsets(call.word)) :
                           call.pos = PosNone \/ ss_pos(ss) = call.pos}
    /\ \A ss \in DOMAIN ss_sign :
         LET raw == RawWords(ss, call.hyperhypo)
             kept == IF call.stop
                     THEN FilterSeq({w \in SeqToSet(raw) : w \notin Stopwords}, raw)
                     ELSE raw
             Norm(w) == LET l == IF call.lemma THEN lemmatize(w) ELSE w
                        IN IF call.stem THEN porter_stem(l) ELSE l
         IN /\ Len(ss_sign[ss]) = Len(kept)
            /\ \A i \in DOMAIN kept : ss_sign[ss][i] = Norm(kept[i])

\* C9, witness: the noun senses of "bank", the verb sense filtered out,
\* stopwords dropped, words lemmatized and stemmed.
C9_Witness ==
  /\ Done("simple_signature")
  /\ call.word = "bank" /\ call.pos = "n"
  /\ call.stop /\ call.lemma /\ call.stem /\ call.hyperhypo
  /\ DOMAIN ss_sign = {1, 2}
  /\ ss_sign[2] = <<"monei", "bank", "banking_company">>

\* C10: stop never changes the signatures of the overlap variants: an
\* adapted_lesk call with the other value of stop has the same outcome,
\* simple_lesk and adapted_lesk build every signature with stopword
\* removal on, and the words adapted_lesk adds never come from a stopword.
C10_StopHasNoEffect ==
  /\ (Done("adapted_lesk") =>
        /\ adapted_lesk(call.sentence, call.word, call.pos, call.lemma,
                        call.stem, call.hyperhypo, ~call.stop,
                        call.context_is_lemmatized, call.nbest, call.keepscore,
                        call.normalizescore, order, call.relorder)
             = Outcome(ss_sign, context, result)
        /\ \A ss \in DOMAIN ss_sign :
             LET base == SenseSignature(ss, call.lemma, call.stem,
                                        call.hyperhypo, TRUE)
                 names == Flatten(LemmaNamesOf(call.relorder[ss]))
             IN /\ SubSeq(ss_sign[ss], 1, Len(base)) = base
                /\ Len(ss_sign[ss]) - Len(base)
                     \in {0, Cardinality({i \in DOMAIN names :
                                            names[i] \notin Stopwords})})
  /\ (Done("simple_lesk") =>
        \A ss \in DOMAIN ss_sign :
          ss_sign[ss] = SenseSignature(ss, call.lemma, call.stem,
                                       call.hyperhypo, TRUE))

\* C10, witness: adapted_lesk called with stop false on a context holding
\* a stopword that a definition holds too; a related sense's stopword
\* lemma name is not added.
C10_Witness ==
  /\ Done("adapted_lesk")
  /\ ~call.stop
  /\ "the" \in SeqToSet(context)
  /\ order = <<2, 3, 1>>
  /\ call.relorder[1] = <<5, 6>>
  /\ "it" \notin SeqToSet(ss_sign[1])
  /\ result.kind = "return"

=============================================================================
